---- MODULE Spec2Model ----
(***************************************************************************)
(* The sequential image-generation queue of AppComponent                   *)
(* (src/src/app.component.ts).                                             *)
(*                                                                         *)
(* Text is a sequence of characters; a character is a one-character        *)
(* string.  A style preset is a text whose single element stands for the   *)
(* whole preset string (it holds no newline and is not whitespace).        *)
(* JavaScript runs one task at a time: an action is one synchronous        *)
(* stretch of a handler, from its entry or from the resumption of an       *)
(* await to its next await or its return.                                  *)
(***************************************************************************)
EXTENDS Integers, Sequences, FiniteSets, TLC

\* ------------------------------------------------------------------ bounds
\* Longest prompts text the user types in the queue specification.
MaxPromptLen == 2
\* Longest raw text given to the prompt splitter in SpecSplit.
MaxSplitLen == 5

\* Longest prompt given to the filename derivation in SpecFile.
MaxFileLen == 3

\* ---------------------------------------------------------------- alphabet
Chars == {"a", "b", " ", "\n"}

\* String.prototype.trim strips white space and line terminators.
IsWhitespace(c) == c \in {" ", "\n", "\t"}

Texts(n) == UNION {[1..k -> Chars] : k \in 0..n}

\* Multi-line texts longer than MaxPromptLen that the queue is run on.
SampleBatches ==
  { <<"a", "\n", "b", "\n", "a", "b">>,
    <<"a", " ", "\n", " ", "b">> }

PromptTexts == Texts(MaxPromptLen) \cup SampleBatches

\* STYLE_PRESETS: the empty preset and one non-empty preset.
STYLE_PRESETS ==
  { <<>>,
    <<"oil painting style, textured canvas, impasto brushstrokes, classical art">> }

\* What generateImage can resolve with: a list of encoded images.
ImageLists ==
  { <<>>, <<"data:image/jpeg;base64,AAA">> }

\* What generateImage can reject with: an Error carrying a message (possibly
\* the empty one), or a thrown value that is no Error.
Failures ==
  { [isError |-> TRUE, message |-> "quota exceeded"],
    [isError |-> TRUE, message |-> ""],
    [isError |-> FALSE, message |-> "quota exceeded"] }

UnknownError == "An unknown error occurred"

\* -------------------------------------------------------------- text helpers
RECURSIVE TrimStart(_)
TrimStart(s) ==
  IF s # <<>> /\ IsWhitespace(Head(s)) THEN TrimStart(Tail(s)) ELSE s

RECURSIVE TrimEnd(_)
TrimEnd(s) ==
  IF s # <<>> /\ IsWhitespace(s[Len(s)])
  THEN TrimEnd(SubSeq(s, 1, Len(s) - 1))
  ELSE s

Trim(s) == TrimEnd(TrimStart(s))

\* s.split('\n'): the pieces between newlines; the empty text gives one
\* empty piece.
RECURSIVE Split(_)
Split(s) ==
  IF \E k \in 1..Len(s) : s[k] = "\n"
  THEN LET k == CHOOSE j \in 1..Len(s) :
                  s[j] = "\n" /\ \A m \in 1..(j - 1) : s[m] # "\n"
       IN <<SubSeq(s, 1, k - 1)>> \o Split(SubSeq(s, k + 1, Len(s)))
  ELSE <<s>>

\* KeepPrompt testing the line itself instead of the trimmed line.
KeepNonEmpty(p) == p # <<>>

\* The filter of the prompt list: the line is kept.
KeepPrompt(p) == Trim(p) # <<>>

\* this.prompts().trim().split('\n').filter(p => p.trim() !== '')
SplitPrompts(text) == SelectSeq(Split(Trim(text)), KeepPrompt)

\* ------------------------------------------------------------------- state
VARIABLES
  prompts,              \* signal: the raw multi-line prompts text
  stylePreset,          \* signal: the selected style preset text
  aspectRatio,          \* signal
  numberOfImages,       \* signal
  model,                \* signal
  results,              \* signal: sequence of ImageGenerationResult
  isLoading,            \* signal: the busy flag
  totalQueueCount,      \* signal
  completedQueueCount,  \* signal
  currentPromptIndex,   \* signal
  runs,                 \* the suspended activations of generateImages
  requestLog,           \* history: generateImage calls issued since the last batch start
  delivered,            \* history: outcomes the client delivered since the last batch start
  batch,                \* history: the prompt list of the last batch started
  batchOptions,         \* history: the option signals when the last batch started
  lastCall,             \* history: how the last generateImages invocation ended
  isZipping,            \* signal: the archive single-flight flag
  zipRuns,              \* the suspended activations of downloadAllAsZip
  zipCall,              \* history: how the last downloadAllAsZip invocation began
  lastZip,              \* history: the last archive construction begun, and its end
  lastDownload          \* history: the last link downloadImage clicked

signals == <<prompts, stylePreset, aspectRatio, numberOfImages, model>>
queue == <<results, isLoading, totalQueueCount, completedQueueCount,
           currentPromptIndex>>
history == <<requestLog, delivered, batch, batchOptions>>
export == <<isZipping, zipRuns, zipCall, lastZip, lastDownload>>
vars == <<signals, queue, runs, history, lastCall, export>>

\* Two of the five aspect ratios and two of the four models.
AspectRatios == {"1:1", "16:9"}
ImageModels == {"gemini-2.5-flash-image", "imagen-4.0-generate-001"}

\* input.valueAsNumber: NaN, or a number below, inside or above the range.
NumberInputs ==
  { [isNaN |-> TRUE, value |-> 0],
    [isNaN |-> FALSE, value |-> 0],
    [isNaN |-> FALSE, value |-> 5] }

Min(a, b) == IF a < b THEN a ELSE b
Max(a, b) == IF a > b THEN a ELSE b

\* ------------------------------------------------------ generateImages pieces
\* Refuses with the whitespace test left out.
RefusesOnlyWhenBusy(loading, text) == loading

\* Refuses with the busy test left out.
RefusesOnlyWhenBlank(loading, text) == Trim(text) = <<>>

\* The guard of generateImages: the call returns at once.
Refuses(loading, text) == loading \/ Trim(text) = <<>>

\* InitialResults with the placeholders left in status idle.
InitialResultsIdle(list) ==
  [k \in 1..Len(list) |-> [prompt |-> list[k], status |-> "idle"]]

\* One placeholder per prompt, in list order.
InitialResults(list) ==
  [k \in 1..Len(list) |-> [prompt |-> list[k], status |-> "loading"]]

\* The prompt sent to the client.
FinalPrompt(prompt, stylePresetValue) ==
  IF stylePresetValue # <<>>
  THEN prompt \o <<",", " ">> \o stylePresetValue
  ELSE prompt

SuccessEntry(prompt, imageB64s) ==
  [prompt |-> prompt, status |-> "success", images |-> imageB64s]

\* The failure's message whenever it has one, whatever the failure is.
ErrorMessageOfAny(error) ==
  IF error.message # "" THEN error.message ELSE UnknownError

\* error instanceof Error ? error.message : 'An unknown error occurred'
ErrorMessage(error) ==
  IF error.isError THEN error.message ELSE UnknownError

ErrorEntry(prompt, error) ==
  [prompt |-> prompt, status |-> "error", error |-> ErrorMessage(error)]

\* An array slot never written reads as undefined.
Hole == [status |-> "undefined"]

\* ReplaceAt writing slot 0 whatever i is.
ReplaceAtFirst(currentResults, i, entry) ==
  [k \in 1..(IF Len(currentResults) = 0 THEN 1 ELSE Len(currentResults)) |->
     IF k = 1 THEN entry ELSE currentResults[k]]

\* const newResults = [...currentResults]; newResults[i] = entry   (i from 0)
ReplaceAt(currentResults, i, entry) ==
  [k \in 1..(IF i + 1 > Len(currentResults) THEN i + 1 ELSE Len(currentResults)) |->
     IF k = i + 1 THEN entry
     ELSE IF k <= Len(currentResults) THEN currentResults[k] ELSE Hole]

\* ResultsOnSuccess storing the styled prompt that was sent.
ResultsOnSuccessStyled(currentResults, f, imageB64s) ==
  ReplaceAt(currentResults, f.i,
            SuccessEntry(FinalPrompt(f.promptsToProcess[f.i + 1],
                                     f.stylePresetValue),
                         imageB64s))

\* The results update of the try block, in the activation f (its i, its list).
ResultsOnSuccess(currentResults, f, imageB64s) ==
  ReplaceAt(currentResults, f.i,
            SuccessEntry(f.promptsToProcess[f.i + 1], imageB64s))

\* ResultsOnError failing every entry still loading along with entry i.
ResultsOnErrorFailsRest(currentResults, f, error) ==
  [k \in 1..Len(currentResults) |->
     IF k = f.i + 1 \/ currentResults[k].status = "loading"
     THEN ErrorEntry(currentResults[k].prompt, error)
     ELSE currentResults[k]]

\* The results update of the catch block, in the activation f.
ResultsOnError(currentResults, f, error) ==
  ReplaceAt(currentResults, f.i,
            ErrorEntry(f.promptsToProcess[f.i + 1], error))

\* Completed counting nothing.
CompletedNotCounted(c) == c

\* finally { this.completedQueueCount.update(c => c + 1) }
Completed(c) == c + 1

\* DelayAfter pacing after the last prompt too.
DelayAfterEvery(i, n) == i < n

\* The loop's delay test: a pacing delay follows prompt i of n.
\* No pacing delay at all.
DelayAfterNever(i, n) == FALSE

DelayAfter(i, n) == i < n - 1

\* Request reading the option signals when the call is issued.
RequestLive(f) ==
  [i |-> f.i,
   prompt |-> FinalPrompt(f.promptsToProcess[f.i + 1], stylePreset),
   aspectRatio |-> aspectRatio,
   numberOfImages |-> numberOfImages,
   model |-> model]

\* The generateImage call the activation f issues for its prompt i.
Request(f) ==
  [i |-> f.i,
   prompt |-> FinalPrompt(f.promptsToProcess[f.i + 1], f.stylePresetValue),
   aspectRatio |-> f.aspectRatio,
   numberOfImages |-> f.numberOfImages,
   model |-> f.model]

\* progressPercentage without the scaling to a percentage.
progressRatio ==
  IF totalQueueCount = 0
  THEN [num |-> 0, den |-> 1]
  ELSE [num |-> completedQueueCount, den |-> totalQueueCount]

\* progressPercentage, as the exact fraction num/den (for the queue sizes here
\* the double the code computes is 0 or 100 exactly when the fraction is).
progressPercentage ==
  IF totalQueueCount = 0
  THEN [num |-> 0, den |-> 1]
  ELSE [num |-> completedQueueCount * 100, den |-> totalQueueCount]

\* ------------------------------------------------------------ export pieces
\* substring(0, 50): the longest sanitized prompt a filename starts with.
MaxStem == 50

UpperCase ==
  <<"A", "B", "C", "D", "E", "F", "G", "H", "I", "J", "K", "L", "M",
    "N", "O", "P", "Q", "R", "S", "T", "U", "V", "W", "X", "Y", "Z">>
LowerCase ==
  <<"a", "b", "c", "d", "e", "f", "g", "h", "i", "j", "k", "l", "m",
    "n", "o", "p", "q", "r", "s", "t", "u", "v", "w", "x", "y", "z">>
Digits == {"0", "1", "2", "3", "4", "5", "6", "7", "8", "9"}

\* toLowerCase()
ToLowerCase(s) ==
  [k \in 1..Len(s) |->
     IF \E j \in 1..26 : UpperCase[j] = s[k]
     THEN LowerCase[CHOOSE j \in 1..26 : UpperCase[j] = s[k]]
     ELSE s[k]]

\* The characters /[^a-z0-9\s-]/ does not match.
KeptChar(c) ==
  \/ \E j \in 1..26 : LowerCase[j] = c
  \/ c \in Digits
  \/ IsWhitespace(c)
  \/ c = "-"

\* replace(/[^a-z0-9\s-]/g, '')
RemoveSpecial(s) == SelectSeq(s, KeptChar)

\* replace(/\s+/g, '_'): every maximal run of whitespace becomes one underscore.
RECURSIVE ReplaceSpaces(_)
ReplaceSpaces(s) ==
  IF s = <<>> THEN <<>>
  ELSE IF IsWhitespace(Head(s))
       THEN <<"_">> \o ReplaceSpaces(TrimStart(s))
       ELSE <<Head(s)>> \o ReplaceSpaces(Tail(s))

\* substring(0, n)
Substring0(s, n) == SubSeq(s, 1, Min(n, Len(s)))

GeneratedImage ==
  <<"g", "e", "n", "e", "r", "a", "t", "e", "d", "_", "i", "m", "a", "g", "e">>
DotJpeg == <<".", "j", "p", "e", "g">>

\* A number in a template literal (one digit for the indices used here).
NumberText(n) == <<ToString(n)>>

\* The filename downloadImage gives the link.
DownloadFilename(prompt, index) ==
  LET sanitizedPrompt ==
        Substring0(ReplaceSpaces(RemoveSpecial(ToLowerCase(prompt))), MaxStem)
  IN (IF sanitizedPrompt # <<>> THEN sanitizedPrompt ELSE GeneratedImage)
       \o <<"_">> \o NumberText(index + 1) \o DotJpeg

\* ZipFilename numbering the images from 0.
ZipFilenameFromZero(prompt, i) ==
  LET sanitizedPrompt ==
        Substring0(ReplaceSpaces(RemoveSpecial(ToLowerCase(prompt))), MaxStem)
  IN (IF sanitizedPrompt # <<>> THEN sanitizedPrompt ELSE GeneratedImage)
       \o <<"_">> \o NumberText(i) \o DotJpeg

\* The filename downloadAllAsZip files image i of a result under.
ZipFilename(prompt, i) ==
  LET sanitizedPrompt ==
        Substring0(ReplaceSpaces(RemoveSpecial(ToLowerCase(prompt))), MaxStem)
  IN (IF sanitizedPrompt # <<>> THEN sanitizedPrompt ELSE GeneratedImage)
       \o <<"_">> \o NumberText(i + 1) \o DotJpeg

\* Encoded images: two data URLs, base64 with no data URL prefix, a data URL
\* with nothing after its comma, and a data URL whose payload is no base64.
ImgA == "data:image/jpeg;base64,AAAA"
ImgB == "data:image/jpeg;base64,BBBB"
ImgRaw == "AAAA"
ImgEmpty == "data:image/jpeg;base64,"
ImgBad == "data:image/jpeg;base64,@@@"

\* imageB64.split(','), on the images above and the one of ImageLists.
CommaSplit(imageB64) ==
  CASE imageB64 = ImgA -> <<"data:image/jpeg;base64", "AAAA">>
    [] imageB64 = ImgB -> <<"data:image/jpeg;base64", "BBBB">>
    [] imageB64 = ImgRaw -> <<"AAAA">>
    [] imageB64 = ImgEmpty -> <<"data:image/jpeg;base64", "">>
    [] imageB64 = ImgBad -> <<"data:image/jpeg;base64", "@@@">>
    [] imageB64 = "data:image/jpeg;base64,AAA" -> <<"data:image/jpeg;base64", "AAA">>
    [] imageB64 = "" -> <<"">>

\* const base64Data = imageB64.split(',')[1]; if (!base64Data) continue;
HasPayload(imageB64) ==
  Len(CommaSplit(imageB64)) >= 2 /\ CommaSplit(imageB64)[2] # ""

\* The filter of successfulResults.
HasImages(r) ==
  r.status = "success" /\ "images" \in DOMAIN r /\ Len(r.images) > 0

\* new JSZip(): no file.
EmptyArchive == [name \in {} |-> ""]

\* zip.file(filename, base64Data, { base64: true }): a file of that name is
\* replaced.
ZipFile(files, filename, base64Data) ==
  [name \in DOMAIN files \cup {filename} |->
     IF name = filename THEN base64Data ELSE files[name]]

\* The inner loop over result.images, from image i on.
RECURSIVE ZipImages(_, _, _)
ZipImages(files, result, i) ==
  IF i >= Len(result.images) THEN files
  ELSE IF ~HasPayload(result.images[i + 1])
       THEN ZipImages(files, result, i + 1)
       ELSE ZipImages(ZipFile(files, ZipFilename(result.prompt, i),
                              CommaSplit(result.images[i + 1])[2]),
                      result, i + 1)

\* The outer loop over successfulResults.
RECURSIVE ZipResults(_, _)
ZipResults(files, successfulResults) ==
  IF successfulResults = <<>> THEN files
  ELSE IF "images" \notin DOMAIN Head(successfulResults)
       THEN ZipResults(files, Tail(successfulResults))
       ELSE ZipResults(ZipImages(files, Head(successfulResults), 0),
                       Tail(successfulResults))

\* The archive downloadAllAsZip builds from the results it reads.
ZipOf(currentResults) ==
  ZipResults(EmptyArchive, SelectSeq(currentResults, HasImages))

\* zip.generateAsync decodes every file: it rejects when a payload is no
\* base64 and resolves otherwise.
ValidBase64(data) == data \in {"AAAA", "BBBB"}
PackableNonEmpty(files) ==
  /\ DOMAIN files # {}
  /\ \A name \in DOMAIN files : ValidBase64(files[name])

Packable(files) == \A name \in DOMAIN files : ValidBase64(files[name])

\* -------------------------------------------------------------------- Init
\* The option signals as they stand.
CurrentOptions ==
  [aspectRatio |-> aspectRatio, numberOfImages |-> numberOfImages,
   stylePreset |-> stylePreset, model |-> model]

NoZip == [outcome |-> "none"]
NoDownload == [download |-> <<>>]

\* No export has been asked for.
ExportInit ==
  /\ isZipping = FALSE
  /\ zipRuns = <<>>
  /\ zipCall = "none"
  /\ lastZip = NoZip
  /\ lastDownload = NoDownload

Init ==
  /\ prompts = <<>>
  /\ stylePreset = <<>>
  /\ aspectRatio = "1:1"
  /\ numberOfImages = 1
  /\ model = "gemini-2.5-flash-image"
  /\ results = <<>>
  /\ isLoading = FALSE
  /\ totalQueueCount = 0
  /\ completedQueueCount = 0
  /\ currentPromptIndex = 0
  /\ runs = <<>>
  /\ requestLog = <<>>
  /\ delivered = <<>>
  /\ batch = <<>>
  /\ batchOptions = CurrentOptions
  /\ lastCall = "none"
  /\ ExportInit

\* The entries with status success and at least one image.
EligibleCount(rs) ==
  Cardinality({k \in 1..Len(rs) :
                 /\ rs[k].status = "success"
                 /\ rs[k].images # <<>>})

\* The images with a payload after the comma, over those entries.
PayloadImages(rs) ==
  UNION { { <<k, j>> : j \in { j \in 1..Len(rs[k].images) :
                                rs[k].images[j] \in
                                  {ImgA, ImgB, ImgBad, "data:image/jpeg;base64,AAA"} } } :
          k \in { k \in 1..Len(rs) : rs[k].status = "success" } }

PayloadCount(rs) == Cardinality(PayloadImages(rs))

\* ----------------------------------------------------------------- actions
\* LoopHead with currentPromptIndex set to i, not i + 1.
LoopHeadZeroBased(f, before, after, log) ==
  IF f.i < Len(f.promptsToProcess)
  THEN /\ currentPromptIndex' = f.i
       /\ requestLog' = Append(log, Request(f))
       /\ runs' = before \o <<[f EXCEPT !.pc = "generateImage"]>> \o after
       /\ isLoading' = TRUE
  ELSE /\ currentPromptIndex' = currentPromptIndex
       /\ requestLog' = log
       /\ runs' = before \o after
       /\ isLoading' = FALSE

\* The loop test and the start of its body, for the activation f that stood
\* between before and after in runs: the request for prompt f.i is issued
\* (log is the request log so far) and f suspends on it, or the loop is over,
\* the busy flag is cleared and the activation returns.
LoopHead(f, before, after, log) ==
  IF f.i < Len(f.promptsToProcess)
  THEN /\ currentPromptIndex' = f.i + 1
       /\ requestLog' = Append(log, Request(f))
       /\ runs' = before \o <<[f EXCEPT !.pc = "generateImage"]>> \o after
       /\ isLoading' = TRUE
  ELSE /\ currentPromptIndex' = currentPromptIndex
       /\ requestLog' = log
       /\ runs' = before \o after
       /\ isLoading' = FALSE

\* generateImages(), from its entry to its first await (or its return).
GenerateImages ==
  IF Refuses(isLoading, prompts)
  THEN /\ lastCall' = "ignored"
       /\ UNCHANGED <<signals, queue, runs, history, export>>
  ELSE LET promptsToProcess == SplitPrompts(prompts)
           f == [promptsToProcess |-> promptsToProcess,
                 i |-> 0,
                 aspectRatio |-> aspectRatio,
                 numberOfImages |-> numberOfImages,
                 stylePresetValue |-> stylePreset,
                 model |-> model,
                 pc |-> "generateImage"]
       IN /\ totalQueueCount' = Len(promptsToProcess)
          /\ completedQueueCount' = 0
          /\ results' = InitialResults(promptsToProcess)
          /\ LoopHead(f, runs, <<>>, <<>>)
          /\ delivered' = <<>>
          /\ batch' = promptsToProcess
          /\ batchOptions' = CurrentOptions
          /\ lastCall' = "started"
          /\ UNCHANGED <<signals, export>>

\* After the try/catch/finally of prompt i in activation k: the pacing delay,
\* or straight on to i++ and the loop test.
AfterPrompt(k) ==
  LET f == runs[k] IN
  IF DelayAfter(f.i, Len(f.promptsToProcess))
  THEN /\ runs' = [runs EXCEPT ![k].pc = "delay"]
       /\ UNCHANGED <<isLoading, currentPromptIndex, requestLog>>
  ELSE /\ LoopHead([f EXCEPT !.i = @ + 1],
                   SubSeq(runs, 1, k - 1), SubSeq(runs, k + 1, Len(runs)),
                   requestLog)

\* The awaited generateImage call of activation k resolves with imageB64s.
Resolve(k, imageB64s) ==
  /\ k \in 1..Len(runs)
  /\ runs[k].pc = "generateImage"
  /\ results' = ResultsOnSuccess(results, runs[k], imageB64s)
  /\ delivered' = Append(delivered,
                         [i |-> runs[k].i, ok |-> TRUE, images |-> imageB64s])
  /\ completedQueueCount' = Completed(completedQueueCount)
  /\ AfterPrompt(k)
  /\ UNCHANGED <<signals, totalQueueCount, batch, batchOptions, lastCall, export>>

\* Reject without the catch: the failure ends the activation where it
\* stands.
RejectUncaught(k, error) ==
  /\ k \in 1..Len(runs)
  /\ runs[k].pc = "generateImage"
  /\ delivered' = Append(delivered,
                         [i |-> runs[k].i, ok |-> FALSE, error |-> error])
  /\ runs' = SubSeq(runs, 1, k - 1) \o SubSeq(runs, k + 1, Len(runs))
  /\ UNCHANGED <<signals, queue, requestLog, batch, batchOptions, lastCall,
                 export>>

\* The awaited generateImage call of activation k rejects with error.
Reject(k, error) ==
  /\ k \in 1..Len(runs)
  /\ runs[k].pc = "generateImage"
  /\ results' = ResultsOnError(results, runs[k], error)
  /\ delivered' = Append(delivered,
                         [i |-> runs[k].i, ok |-> FALSE, error |-> error])
  /\ completedQueueCount' = Completed(completedQueueCount)
  /\ AfterPrompt(k)
  /\ UNCHANGED <<signals, totalQueueCount, batch, batchOptions, lastCall, export>>

\* The one-second pacing delay of activation k elapses: i++ and the loop test.
DelayElapsed(k) ==
  /\ k \in 1..Len(runs)
  /\ runs[k].pc = "delay"
  /\ LoopHead([runs[k] EXCEPT !.i = @ + 1],
              SubSeq(runs, 1, k - 1), SubSeq(runs, k + 1, Len(runs)),
              requestLog)
  /\ UNCHANGED <<signals, results, totalQueueCount, completedQueueCount,
                 delivered, batch, batchOptions, lastCall, export>>

\* The user edits the prompts text.
SetPrompts(text) ==
  /\ prompts' = text
  /\ UNCHANGED <<stylePreset, aspectRatio, numberOfImages, model, queue, runs,
                 history, lastCall, export>>

\* The user selects a style preset.
SetStylePreset(value) ==
  /\ stylePreset' = value
  /\ UNCHANGED <<prompts, aspectRatio, numberOfImages, model, queue, runs,
                 history, lastCall, export>>

\* The user selects an aspect ratio.
SetAspectRatio(value) ==
  /\ aspectRatio' = value
  /\ UNCHANGED <<prompts, stylePreset, numberOfImages, model, queue, runs,
                 history, lastCall, export>>

\* The user selects a model.
SetModel(value) ==
  /\ model' = value
  /\ UNCHANGED <<prompts, stylePreset, aspectRatio, numberOfImages, queue, runs,
                 history, lastCall, export>>

\* onNumberOfImagesChange(event), with input the event target's valueAsNumber.
OnNumberOfImagesChange(input) ==
  /\ numberOfImages' = IF input.isNaN THEN 1 ELSE Max(1, Min(4, input.value))
  /\ UNCHANGED <<prompts, stylePreset, aspectRatio, model, queue, runs,
                 history, lastCall, export>>

\* downloadImage(imageB64, prompt, index)
DownloadImage(imageB64, prompt, index) ==
  /\ lastDownload' =
       IF imageB64 = ""
       THEN lastDownload
       ELSE [href |-> imageB64, download |-> DownloadFilename(prompt, index),
             prompt |-> prompt, index |-> index]
  /\ UNCHANGED <<signals, queue, runs, history, lastCall, isZipping, zipRuns,
                 zipCall, lastZip>>

\* downloadAllAsZip(), from its entry to its await of zip.generateAsync (or
\* its return).  lastZip notes how many entries with status success and an
\* image, and how many images with a payload, results held.
DownloadAllAsZip ==
  IF isZipping
  THEN /\ zipCall' = "ignored"
       /\ UNCHANGED <<signals, queue, runs, history, lastCall, isZipping,
                      zipRuns, lastZip, lastDownload>>
  ELSE /\ isZipping' = TRUE
       /\ zipRuns' = Append(zipRuns, [files |-> ZipOf(results)])
       /\ zipCall' = "started"
       /\ lastZip' = [outcome |-> "pending",
                      eligible |-> EligibleCount(results),
                      images |-> PayloadCount(results)]
       /\ UNCHANGED <<signals, queue, runs, history, lastCall, lastDownload>>

\* zip.generateAsync of activation k resolves: saveAs, then finally.
ZipResolves(k) ==
  /\ k \in 1..Len(zipRuns)
  /\ Packable(zipRuns[k].files)
  /\ lastZip' = [outcome |-> "saved", eligible |-> lastZip.eligible,
                 images |-> lastZip.images, files |-> zipRuns[k].files]
  /\ isZipping' = FALSE
  /\ zipRuns' = SubSeq(zipRuns, 1, k - 1) \o SubSeq(zipRuns, k + 1, Len(zipRuns))
  /\ UNCHANGED <<signals, queue, runs, history, lastCall, zipCall, lastDownload>>

\* ZipRejects without the catch and the finally: the failure leaves the
\* handler and the flag stays set.
ZipRejectsUncaught(k) ==
  /\ k \in 1..Len(zipRuns)
  /\ ~Packable(zipRuns[k].files)
  /\ lastZip' = [outcome |-> "thrown", eligible |-> lastZip.eligible,
                 images |-> lastZip.images]
  /\ zipRuns' = SubSeq(zipRuns, 1, k - 1) \o SubSeq(zipRuns, k + 1, Len(zipRuns))
  /\ UNCHANGED <<signals, queue, runs, history, lastCall, zipCall, lastDownload,
                 isZipping>>

\* zip.generateAsync of activation k rejects: catch logs it, then finally.
ZipRejects(k) ==
  /\ k \in 1..Len(zipRuns)
  /\ ~Packable(zipRuns[k].files)
  /\ lastZip' = [outcome |-> "logged", eligible |-> lastZip.eligible,
                 images |-> lastZip.images]
  /\ isZipping' = FALSE
  /\ zipRuns' = SubSeq(zipRuns, 1, k - 1) \o SubSeq(zipRuns, k + 1, Len(zipRuns))
  /\ UNCHANGED <<signals, queue, runs, history, lastCall, zipCall, lastDownload>>

\* The download button of image j of entry k.
ClickDownload ==
  \E k \in 1..Len(results) :
    /\ "images" \in DOMAIN results[k]
    /\ \E j \in 1..Len(results[k].images) :
         DownloadImage(results[k].images[j], results[k].prompt, j - 1)

PackagingResolves == \E k \in 1..Len(zipRuns) : ZipResolves(k)
PackagingRejects == \E k \in 1..Len(zipRuns) : ZipRejects(k)

ClientResolves ==
  \E k \in 1..Len(runs), imageB64s \in ImageLists : Resolve(k, imageB64s)
ClientRejects ==
  \E k \in 1..Len(runs), error \in Failures : Reject(k, error)
TimerFires == \E k \in 1..Len(runs) : DelayElapsed(k)
EditPrompts == \E text \in PromptTexts : SetPrompts(text)
SelectStyle == \E value \in STYLE_PRESETS : SetStylePreset(value)

\* The queue under every prompts text up to MaxPromptLen and the sample
\* batches, and both style presets; the other options keep their defaults.
Next ==
  \/ GenerateImages
  \/ ClientResolves
  \/ ClientRejects
  \/ TimerFires
  \/ EditPrompts
  \/ SelectStyle

Spec == Init /\ [][Next]_vars

\* The queue under every configuration handler, on the empty text and one
\* text of two prompts.
OptionTexts == { <<>>, <<"a", "\n", "b">> }

EditSamplePrompts == \E text \in OptionTexts : SetPrompts(text)
SelectAspectRatio == \E value \in AspectRatios : SetAspectRatio(value)
SelectModel == \E value \in ImageModels : SetModel(value)
ChangeNumberOfImages == \E input \in NumberInputs : OnNumberOfImagesChange(input)

NextOptions ==
  \/ GenerateImages
  \/ ClientResolves
  \/ ClientRejects
  \/ TimerFires
  \/ EditSamplePrompts
  \/ SelectStyle
  \/ SelectAspectRatio
  \/ SelectModel
  \/ ChangeNumberOfImages

SpecOptions == Init /\ [][NextOptions]_vars

\* The prompt splitter on every raw text up to MaxSplitLen: the text is drawn
\* at the start and generateImages is run on it.
InitSplit ==
  /\ prompts \in Texts(MaxSplitLen)
  /\ stylePreset = <<>>
  /\ aspectRatio = "1:1"
  /\ numberOfImages = 1
  /\ model = "gemini-2.5-flash-image"
  /\ results = <<>>
  /\ isLoading = FALSE
  /\ totalQueueCount = 0
  /\ completedQueueCount = 0
  /\ currentPromptIndex = 0
  /\ runs = <<>>
  /\ requestLog = <<>>
  /\ delivered = <<>>
  /\ batch = <<>>
  /\ batchOptions = CurrentOptions
  /\ lastCall = "none"
  /\ ExportInit

NextSplit == GenerateImages

SpecSplit == InitSplit /\ [][NextSplit]_vars

\* The filename derivation on every prompt up to MaxFileLen over letters of
\* both cases, a digit, the hyphen, a space, a tab and a symbol, and on the
\* sample prompts: results holds one successful entry of that prompt, as
\* after a batch of one prompt, and the export handlers run on it.
FileChars == {"a", "B", "7", "-", " ", "\t", "!"}

Rep(c, n) == [k \in 1..n |-> c]

CatPrompt ==
  <<"A", " ", "C", "a", "t", "!", " ", "@", "S", "u", "n", "s", "e", "t", "#">>

SamplePrompts ==
  { CatPrompt,
    Rep("a", 51),
    Rep("a", 49) \o <<" ", " ", "b">>,
    <<"!", "!">> \o Rep("a", 50) }

FilePrompts ==
  UNION {[1..k -> FileChars] : k \in 0..MaxFileLen} \cup SamplePrompts

FileImageLists == { <<ImgA, ImgB>>, <<ImgRaw, ImgA>>, <<ImgBad>> }

InitFile ==
  \E p \in FilePrompts, imageB64s \in FileImageLists :
    /\ prompts = <<>>
    /\ stylePreset = <<>>
    /\ aspectRatio = "1:1"
    /\ numberOfImages = 1
    /\ model = "gemini-2.5-flash-image"
    /\ results = <<SuccessEntry(p, imageB64s)>>
    /\ isLoading = FALSE
    /\ totalQueueCount = 1
    /\ completedQueueCount = 1
    /\ currentPromptIndex = 1
    /\ runs = <<>>
    /\ requestLog = <<[i |-> 0, prompt |-> p, aspectRatio |-> "1:1",
                       numberOfImages |-> 1, model |-> "gemini-2.5-flash-image"]>>
    /\ delivered = <<[i |-> 0, ok |-> TRUE, images |-> imageB64s]>>
    /\ batch = <<p>>
    /\ batchOptions = CurrentOptions
    /\ lastCall = "started"
    /\ ExportInit

NextFile ==
  \/ ClickDownload
  \/ DownloadAllAsZip
  \/ PackagingResolves
  \/ PackagingRejects

SpecFile == InitFile /\ [][NextFile]_vars

\* ------------------------------------------------------ the queue, scheduled
\* Every generateImage call is answered and every pacing timer fires; the
\* user may start batches and edit the prompts at any moment, or never.
EditBatchPrompts ==
  \E text \in SampleBatches \cup OptionTexts : SetPrompts(text)

NextLive ==
  \/ GenerateImages
  \/ ClientResolves
  \/ ClientRejects
  \/ TimerFires
  \/ EditBatchPrompts

SpecLive ==
  /\ Init
  /\ [][NextLive]_vars
  /\ WF_vars(ClientResolves \/ ClientRejects)
  /\ WF_vars(TimerFires)

\* ------------------------------------------------- the queue and the archive
\* Batches of two prompts that are equal, or differ and sanitize to one name.
ArchiveTexts == { <<"a", "\n", "a">>, <<"a", "\n", "A">> }

\* What the client answers with: no image, an image and a string without a
\* comma, an image whose payload is no base64.
ArchiveImageLists == { <<>>, <<ImgA, ImgRaw>>, <<ImgBad>> }

EditArchivePrompts == \E text \in ArchiveTexts : SetPrompts(text)
ArchiveClientResolves ==
  \E k \in 1..Len(runs), imageB64s \in ArchiveImageLists : Resolve(k, imageB64s)
ArchiveClientRejects ==
  \E k \in 1..Len(runs) :
    Reject(k, [isError |-> TRUE, message |-> "quota exceeded"])

\* The queue with the archive export asked for at any moment.
NextZip ==
  \/ GenerateImages
  \/ ArchiveClientResolves
  \/ ArchiveClientRejects
  \/ TimerFires
  \/ EditArchivePrompts
  \/ DownloadAllAsZip
  \/ PackagingResolves
  \/ PackagingRejects

SpecZip == Init /\ [][NextZip]_vars

\* ------------------------------------------------------------ vocabulary
\* Empty or whitespace-only.
Blank(text) == \A k \in 1..Len(text) : IsWhitespace(text[k])

Resolved(entry) == entry.status \in {"success", "error"}

\* A placeholder: loading, with neither images nor error.
Fresh(entry) == entry.status = "loading" /\ DOMAIN entry = {"prompt", "status"}

\* The generateImage calls outstanding.
Outstanding == {k \in 1..Len(runs) : runs[k].pc = "generateImage"}

\* The fraction p is the number v.
IsNumber(p, v) == p.num = v * p.den

NotBlank(text) == ~Blank(text)

\* The lines of the raw text that are not empty or whitespace-only, in order.
NonBlankLines(text) == SelectSeq(Split(text), NotBlank)

TrimAll(list) == [k \in 1..Len(list) |-> Trim(list[k])]

\* The claimed filename derivation, with blanks the characters that count as
\* whitespace: lowercase, keep a-z, 0-9, blanks and the hyphen, turn each run
\* of blanks into one underscore, keep at most 50 characters, generated_image
\* if nothing is left, then _<index+1>.jpeg (over the characters of
\* FilePrompts).
ClaimLower(c) ==
  CASE c = "A" -> "a" [] c = "B" -> "b" [] c = "C" -> "c" [] c = "S" -> "s"
    [] OTHER -> c

ClaimKept(c, blanks) ==
  c \in {"a", "b", "c", "e", "n", "s", "t", "u", "7", "-"} \cup blanks

RECURSIVE ClaimCollapse(_, _)
ClaimCollapse(s, blanks) ==
  IF s = <<>> THEN <<>>
  ELSE LET front == ClaimCollapse(SubSeq(s, 1, Len(s) - 1), blanks)
           last == s[Len(s)]
       IN IF last \notin blanks THEN Append(front, last)
          ELSE IF Len(s) >= 2 /\ s[Len(s) - 1] \in blanks THEN front
          ELSE Append(front, "_")

ClaimFilename(prompt, index, blanks) ==
  LET lowered == [k \in 1..Len(prompt) |-> ClaimLower(prompt[k])]
      kept == SelectSeq(lowered, LAMBDA c : ClaimKept(c, blanks))
      collapsed == ClaimCollapse(kept, blanks)
      stem == IF Len(collapsed) > 50 THEN SubSeq(collapsed, 1, 50) ELSE collapsed
  IN (IF stem = <<>> THEN GeneratedImage ELSE stem)
       \o <<"_", ToString(index + 1), ".", "j", "p", "e", "g">>

\* The names the archive must hold for the results rs under that derivation.
ClaimArchiveNames(rs, blanks) ==
  { ClaimFilename(rs[kj[1]].prompt, kj[2] - 1, blanks) : kj \in PayloadImages(rs) }

\* Both handlers derived the claimed filenames.
FilenamesAre(blanks) ==
  /\ lastDownload # NoDownload
       => lastDownload.download =
            ClaimFilename(lastDownload.prompt, lastDownload.index, blanks)
  /\ \A k \in 1..Len(zipRuns) :
       DOMAIN zipRuns[k].files = ClaimArchiveNames(results, blanks)
  /\ (lastDownload # NoDownload /\ lastDownload.index = 0)
       => /\ lastDownload.prompt = CatPrompt
               => lastDownload.download =
                    <<"a", "_", "c", "a", "t", "_", "s", "u", "n", "s", "e", "t",
                      "_", "1", ".", "j", "p", "e", "g">>
          /\ lastDownload.prompt \in {<<>>, <<"!">>, <<"!", "!", "!">>}
               => lastDownload.download =
                    GeneratedImage \o <<"_", "1", ".", "j", "p", "e", "g">>

\* The failure carries a message.
CarriesMessage(error) == error.message # ""

\* The failures delivered to the running batch, each with the entry of its
\* prompt.
FailedDeliveries ==
  { k \in 1..Len(delivered) : ~delivered[k].ok }

EntryOf(k) == results[delivered[k].i + 1]

\* This step starts a batch.
BatchStarts == ~isLoading /\ isLoading'

\* This step delivers the client's outcome of one generateImage call.
Delivers == Len(delivered') = Len(delivered) + 1

\* ------------------------------------------------------------------ claims

\* C1: generateImages invoked while isLoading is true, or while the prompts
\* text is empty or whitespace-only, changes none of results, isLoading,
\* totalQueueCount, completedQueueCount and currentPromptIndex, and issues no
\* generation request (no activation is created, the request log is as it was).
C1_RefusedCallIsNoOp ==
  [][(GenerateImages /\ (isLoading \/ Blank(prompts)))
       => UNCHANGED <<results, isLoading, totalQueueCount, completedQueueCount,
                      currentPromptIndex, runs, requestLog>>]_vars

\* A trigger was refused while a batch of several prompts is running.
C1_Witness ==
  /\ lastCall = "ignored"
  /\ isLoading
  /\ Len(results) >= 2
  /\ ~Blank(prompts)

\* C2: from the start of a batch of N prompts until the client first answers,
\* the only request issued is the one for prompt 0 and results holds exactly
\* N entries, in prompt order, each loading with neither images nor error,
\* whatever results held before.
C2_FreshResultsAtBatchStart ==
  (isLoading /\ delivered = <<>>)
    => /\ Len(requestLog) = 1
       /\ requestLog[1].i = 0
       /\ Len(results) = Len(batch)
       /\ Len(results) = totalQueueCount
       /\ \A k \in 1..Len(results) :
            Fresh(results[k]) /\ results[k].prompt = batch[k]

\* A batch of three prompts has just started.
C2_Witness ==
  /\ isLoading
  /\ delivered = <<>>
  /\ Len(batch) = 3
  /\ Len(results) = 3
  /\ Cardinality(Outstanding) = 1

\* C3: at most one generateImage call is outstanding, requests are issued in
\* prompt order, and when the request for a prompt has been issued every
\* earlier entry has status success or error.
C3_SequentialDispatch ==
  /\ Cardinality(Outstanding) <= 1
  /\ Len(runs) <= 1
  /\ \A r \in 1..Len(requestLog) :
       /\ requestLog[r].i = r - 1
       /\ \A j \in 1..(r - 1) : j <= Len(results) /\ Resolved(results[j])

\* The request for the third prompt is outstanding and a trigger was refused
\* meanwhile.
C3_Witness ==
  /\ lastCall = "ignored"
  /\ Len(requestLog) = 3
  /\ \E k \in Outstanding : runs[k].i = 2

\* C4: when the generation call for prompt i fails, entry i gets status error
\* and every other entry of results is left exactly as it was; the loop goes
\* on (the activation is kept when prompts remain), and when a batch is over
\* a request was issued for every one of its prompts, failures or not.
C4_FailureIsIsolated ==
  /\ [][(Delivers /\ ~delivered'[Len(delivered')].ok)
          => LET i == delivered'[Len(delivered')].i IN
               /\ Len(results') = Len(results)
               /\ results'[i + 1].status = "error"
               /\ \A j \in 1..Len(results) : j # i + 1 => results'[j] = results[j]
               /\ i + 1 < Len(batch) => (isLoading' /\ Len(runs') = 1)]_vars
  /\ [](~isLoading => /\ Len(requestLog) = Len(batch)
                      /\ \A r \in 1..Len(requestLog) : requestLog[r].i = r - 1)

\* A batch of three prompts is over whose first call failed and whose later
\* calls were issued and succeeded.
C4_Witness ==
  /\ ~isLoading
  /\ Len(batch) = 3
  /\ Len(delivered) = 3
  /\ ~delivered[1].ok
  /\ delivered[2].ok
  /\ delivered[3].ok
  /\ Len(requestLog) = 3

\* C5: within a batch an entry leaves status loading only for success or
\* error, and once it has status success or error no later step of the batch
\* changes it.
C5_ResolvedEntryIsFinal ==
  [][~BatchStarts
       => /\ Len(results') = Len(results)
          /\ \A j \in 1..Len(results) :
               /\ Resolved(results[j]) => results'[j] = results[j]
               /\ results[j].status = "loading"
                    => results'[j].status \in {"loading", "success", "error"}]_vars

\* The first entry is resolved and the batch has gone on to resolve a later
\* one.
C5_Witness ==
  /\ isLoading
  /\ Len(results) = 3
  /\ results[1].status = "error"
  /\ results[2].status = "success"
  /\ results[3].status = "loading"

\* C6: completedQueueCount is 0 after a batch start, one more after each
\* outcome the client delivers (images or failure), and unchanged by every
\* other step.
C6_CompletedCountsOutcomes ==
  [][/\ BatchStarts => completedQueueCount' = 0
     /\ Delivers => completedQueueCount' = completedQueueCount + 1
     /\ (~BatchStarts /\ ~Delivers) => completedQueueCount' = completedQueueCount]_vars

\* Two prompts have resolved, one by failure and one by success.
C6_Witness ==
  /\ completedQueueCount = 2
  /\ Len(delivered) = 2
  /\ ~delivered[1].ok
  /\ delivered[2].ok

\* C7: with N the size of the batch, totalQueueCount is N, isLoading is true
\* exactly while completedQueueCount < N, and whenever isLoading is false
\* completedQueueCount = totalQueueCount = N.
C7_CompletedReachesTotalWhenIdle ==
  /\ totalQueueCount = Len(batch)
  /\ isLoading <=> completedQueueCount < totalQueueCount
  /\ ~isLoading => (completedQueueCount = totalQueueCount
                      /\ completedQueueCount = Len(batch))

\* A batch of three prompts is over.
C7_Witness ==
  /\ ~isLoading
  /\ Len(batch) = 3
  /\ completedQueueCount = 3
  /\ Len(delivered) = 3

C9_AsStated ==
  /\ totalQueueCount = 0 => IsNumber(progressPercentage, 0)
  /\ IsNumber(progressPercentage, 100) <=> completedQueueCount = totalQueueCount

\* C9 amended: the progress percentage is 0 when totalQueueCount is 0, and
\* when totalQueueCount is not 0 it is 100 exactly when completedQueueCount
\* equals totalQueueCount.
C9_ProgressPercentage ==
  /\ totalQueueCount = 0 => IsNumber(progressPercentage, 0)
  /\ totalQueueCount # 0
       => (IsNumber(progressPercentage, 100)
             <=> completedQueueCount = totalQueueCount)

\* A batch of three prompts is over at 100 percent.
C9_Witness ==
  /\ totalQueueCount = 3
  /\ completedQueueCount = 3
  /\ IsNumber(progressPercentage, 100)

\* C10: the prompt list computed at batch start has no empty or
\* whitespace-only element, and it is the sequence of the lines of the raw
\* text that are not empty or whitespace-only, in their order (each line
\* compared up to its outer whitespace).
C10_SplitKeepsNonBlankLines ==
  \A k \in 1..Len(runs) :
    LET list == runs[k].promptsToProcess IN
      /\ \A j \in 1..Len(list) : ~Blank(list[j])
      /\ TrimAll(list) = TrimAll(NonBlankLines(prompts))

\* A batch of two prompts started from a text that begins with whitespace
\* and has a dropped line between its two prompts.
C10_Witness ==
  /\ Len(runs) = 1
  /\ Len(runs[1].promptsToProcess) = 2
  /\ Len(Split(prompts)) = 3
  /\ Blank(Split(prompts)[2])
  /\ IsWhitespace(prompts[1])

\* C11 as stated: downloadImage and downloadAllAsZip derive the same
\* filename, the one got by lowercasing, stripping every character outside
\* a-z, 0-9, the space and the hyphen, collapsing whitespace runs to one
\* underscore, truncating to 50, defaulting to generated_image and appending
\* _<index+1>.jpeg.
C11_AsStated == FilenamesAre({" "})

\* C11 amended: the same, with every whitespace character (not only the
\* space) kept by the stripping and then collapsed into the underscores.
C11_Filenames == FilenamesAre({" ", "\t", "\n"})

\* The cat prompt's first image was downloaded as a_cat_sunset_1.jpeg and an
\* archive under construction files it under the same name.
C11_Witness ==
  /\ lastDownload # NoDownload
  /\ lastDownload.prompt = CatPrompt
  /\ lastDownload.index = 0
  /\ \E k \in 1..Len(zipRuns) :
       lastDownload.download \in DOMAIN zipRuns[k].files


\* C12: an archive export that finds no entry with status success and an
\* image (the store is empty, or holds only loading or error entries or
\* successes without an image) builds an archive with no file, which
\* packaging accepts; the export ends by saving that empty archive and never
\* by logging an error.
C12_EmptyExportSavesEmptyArchive ==
  (lastZip # NoZip /\ lastZip.eligible = 0) =>
    /\ lastZip.outcome \in {"pending", "saved"}
    /\ lastZip.outcome = "pending" =>
         /\ Len(zipRuns) = 1
         /\ zipRuns[1].files = EmptyArchive
         /\ Packable(zipRuns[1].files)
    /\ lastZip.outcome = "saved" => lastZip.files = EmptyArchive

\* An export over a finished batch of a success without an image and an
\* error has saved its archive.
C12_Witness ==
  /\ lastZip # NoZip
  /\ lastZip.outcome = "saved"
  /\ lastZip.eligible = 0
  /\ ~isLoading
  /\ Len(results) = 2
  /\ results[1].status = "success"
  /\ results[2].status = "error"

\* C13: every request of a batch carries the aspect ratio, the image count
\* and the model the signals held when the batch started, and as prompt the
\* batch's prompt of that index, followed by ", " and the style preset of the
\* batch start when that preset is not empty, whatever the option and prompts
\* signals have been set to since.
C13_RequestsCarryBatchStartOptions ==
  \A k \in 1..Len(requestLog) :
    LET request == requestLog[k]
        raw == batch[request.i + 1]
    IN /\ request.aspectRatio = batchOptions.aspectRatio
       /\ request.numberOfImages = batchOptions.numberOfImages
       /\ request.model = batchOptions.model
       /\ request.prompt =
            IF batchOptions.stylePreset = <<>>
            THEN raw
            ELSE raw \o <<",", " ">> \o batchOptions.stylePreset

\* The second request of a styled batch has been issued, every option
\* signal and the prompts differ from what they were at the batch start.
C13_Witness ==
  /\ isLoading
  /\ Len(requestLog) = 2
  /\ batchOptions.stylePreset # <<>>
  /\ aspectRatio # batchOptions.aspectRatio
  /\ numberOfImages # batchOptions.numberOfImages
  /\ model # batchOptions.model
  /\ stylePreset # batchOptions.stylePreset
  /\ SplitPrompts(prompts) # batch

\* A call of downloadAllAsZip has just been made.
ZipCalled == zipCall' # zipCall \/ Len(zipRuns') > Len(zipRuns)

\* An activation of downloadAllAsZip has just ended.
ZipEnds == Len(zipRuns') < Len(zipRuns)

\* C14: a call of downloadAllAsZip while isZipping is set changes nothing
\* (but the note that the call was ignored), so at most one activation is
\* ever building or packaging an archive, and isZipping is set exactly while
\* it does; when the activation ends, packaged or not and with or without
\* eligible images, the flag is cleared and the outcome is a saved archive or
\* a logged failure, never a failure leaving the handler.
C14_ZipSingleFlight ==
  /\ [](Len(zipRuns) <= 1 /\ (isZipping <=> zipRuns # <<>>))
  /\ [][(isZipping /\ ZipCalled) =>
          /\ zipCall' = "ignored"
          /\ UNCHANGED <<signals, queue, runs, history, lastCall, isZipping,
                         zipRuns, lastZip, lastDownload>>]_vars
  /\ [][ZipEnds =>
          /\ ~isZipping'
          /\ lastZip'.outcome \in {"saved", "logged"}]_vars

\* A second call was ignored while an archive was packaged, the packaging
\* failed since, and the flag is clear.
C14_Witness ==
  /\ zipCall = "ignored"
  /\ lastZip # NoZip
  /\ lastZip.outcome = "logged"
  /\ ~isZipping

\* C15: when every generateImage call is answered and every pacing delay
\* elapses, a batch that has started comes to its end: isLoading is cleared
\* and every entry is a success or an error, whichever prompts failed.
C15_BatchTerminates ==
  isLoading ~> (/\ ~isLoading
                /\ \A k \in 1..Len(results) : Resolved(results[k]))

\* A batch of two prompts has ended, both prompts having failed.
C15_Witness ==
  /\ ~isLoading
  /\ Len(results) = 2
  /\ Len(delivered) = 2
  /\ \A k \in 1..2 : results[k].status = "error"

\* A generateImage call of the running batch is issued (not the first one,
\* which the start of the batch issues).
NextRequest == Len(requestLog') = Len(requestLog) + 1 /\ ~BatchStarts

\* C16: when the call for a prompt that is not the last of its batch is
\* answered, by a success or a failure, the activation waits on one pacing
\* delay and issues nothing; the next request is issued when that delay
\* elapses and only then, so one delay and no more lies between an answer
\* and the next request.  When the call for the last prompt is answered the
\* activation ends and isLoading is cleared in the same step, no delay
\* waited for.
C16_Pacing ==
  /\ [][Delivers =>
          LET d == delivered'[Len(delivered')] IN
          IF d.i < Len(batch) - 1
          THEN /\ Len(runs') = 1
               /\ runs'[1].pc = "delay"
               /\ runs'[1].i = d.i
               /\ requestLog' = requestLog
               /\ isLoading'
          ELSE /\ runs' = <<>>
               /\ requestLog' = requestLog
               /\ ~isLoading']_vars
  /\ [][NextRequest =>
          /\ Len(runs) = 1
          /\ runs[1].pc = "delay"
          /\ requestLog'[Len(requestLog')].i = runs[1].i + 1
          /\ runs'[1].pc = "generateImage"]_vars
  /\ [][(\E k \in 1..Len(runs) : runs[k].pc = "delay") /\ runs' # runs =>
          NextRequest]_vars

\* The second request of a batch is outstanding, issued after the delay that
\* followed the failure of the first.
C16_Witness ==
  /\ Len(requestLog) = 2
  /\ Len(delivered) = 1
  /\ ~delivered[1].ok
  /\ Len(runs) = 1
  /\ runs[1].pc = "generateImage"

\* C17 as stated: the error of an entry whose call failed is the message the
\* failure carries, and is the generic string exactly when the failure
\* carries no message.
C17_AsStated ==
  \A k \in FailedDeliveries :
    /\ CarriesMessage(delivered[k].error) =>
         EntryOf(k).error = delivered[k].error.message
    /\ EntryOf(k).error = UnknownError <=> ~CarriesMessage(delivered[k].error)

\* C17: the error of an entry whose call failed is the failure's message
\* when the failure is an Error, empty or not, and is the generic string
\* exactly when the failure is no Error, whatever message it carries.
C17_ErrorIsMessageOfErrors ==
  \A k \in FailedDeliveries :
    /\ EntryOf(k).status = "error"
    /\ delivered[k].error.isError =>
         EntryOf(k).error = delivered[k].error.message
    /\ EntryOf(k).error = UnknownError <=> ~delivered[k].error.isError

\* One call failed with a value that is no Error and carries a message,
\* another with an Error whose message is empty.
C17_Witness ==
  /\ \E k \in FailedDeliveries :
       /\ ~delivered[k].error.isError
       /\ CarriesMessage(delivered[k].error)
       /\ EntryOf(k).error = UnknownError
  /\ \E k \in FailedDeliveries :
       /\ delivered[k].error.isError
       /\ ~CarriesMessage(delivered[k].error)
       /\ EntryOf(k).error = ""

\* The text has no whitespace at either end.
Trimmed(text) == Trim(text) = text

\* C18: every prompt of the list computed at batch start is trimmed, and so
\* is every entry's prompt and every request's prompt (no style preset is
\* selected here).
C18_PromptsAreTrimmed ==
  /\ \A k \in 1..Len(runs) :
       \A j \in 1..Len(runs[k].promptsToProcess) :
         Trimmed(runs[k].promptsToProcess[j])
  /\ \A k \in 1..Len(results) : Trimmed(results[k].prompt)
  /\ \A k \in 1..Len(requestLog) : Trimmed(requestLog[k].prompt)

\* C19: in every state, over any sequence of batches, results has
\* totalQueueCount entries, completedQueueCount and currentPromptIndex lie
\* between 0 and totalQueueCount, completedQueueCount is currentPromptIndex
\* or one less, the entries of index below completedQueueCount are successes
\* or errors and the entries of index currentPromptIndex and above are
\* loading (indices from 0).
C19_QueueCounters ==
  /\ Len(results) = totalQueueCount
  /\ 0 <= completedQueueCount /\ completedQueueCount <= totalQueueCount
  /\ 0 <= currentPromptIndex /\ currentPromptIndex <= totalQueueCount
  /\ completedQueueCount \in {currentPromptIndex, currentPromptIndex - 1}
  /\ \A k \in 1..Len(results) :
       /\ k - 1 < completedQueueCount => Resolved(results[k])
       /\ k - 1 >= currentPromptIndex => results[k].status = "loading"

\* The second of three prompts is in flight: one entry is resolved, one is
\* awaited, one is still to come.
C19_Witness ==
  /\ isLoading
  /\ totalQueueCount = 3
  /\ completedQueueCount = 1
  /\ currentPromptIndex = 2
  /\ Resolved(results[1])
  /\ results[3].status = "loading"
  /\ Outstanding # {}

\* C20: the archive an export saves holds as many files as the results it
\* read held images with a payload in entries with status success, also when
\* prompts are equal or sanitize to the same name.
C20_OneFilePerImage ==
  (lastZip # NoZip /\ lastZip.outcome = "saved") =>
    Cardinality(DOMAIN lastZip.files) = lastZip.images
====
